---- MODULE Spec2Model ----
(***************************************************************************)
(* A model of src/src/node.rs: the blocking facade over an iroh node.     *)
(* The facade's own code (block_on, the map_err of every operation, the   *)
(* forwarding loop of subscribe, the ownership of the runtime in          *)
(* IrohNode::new) is translated from the source.  The collaborators the   *)
(* file calls into (the iroh store and its ticket codec, the tokio        *)
(* executor, crate::error) are not part of the file; they are modelled    *)
(* from their contracts in spec.md and kept apart under "collaborator"    *)
(* headings.                                                              *)
(***************************************************************************)
EXTENDS Integers, Sequences, FiniteSets, TLC

VARIABLES
  \* the ticket round trip of tests::test_doc_create (node.rs:301-307)
  tkTicket,   \* the result of share_write / share_read, None before
  tkText,     \* the text handed to from_string
  tkSrc,      \* where tkText comes from: "none", "ticket" (to_string), "caller"
  tkBack      \* the result of from_string, None before

ticketVars == <<tkTicket, tkText, tkSrc, tkBack>>

VARIABLES
  \* the node and what IrohNode::new starts (node.rs:177-229)
  pc,         \* where IrohNode is: "init", "runtime", "tempdir", "stores",
              \* "alive", "failed", "dropped"
  runtime,    \* tokio_rt: "none", "running", "shutdown"
  pool,       \* the LocalPoolHandle's threads: "none", "running", "stopped"
  tasks,      \* the tasks running on the executor
  newResult   \* what IrohNode::new returned, None before

nodeVars == <<pc, runtime, pool, tasks, newResult>>

VARIABLES
  \* the store behind sync_client (collaborator state)
  docs,       \* the documents the store tracks
  readonly,   \* the documents the store may read but not write
  closed,     \* the documents the store has closed (none in this facade)
  authors,    \* the authors created on this node
  records,    \* every entry written: [doc, author, key, hash, ts]
  blobs,      \* the contents the blob store holds, by hash
  clock       \* the store's write counter

storeVars == <<docs, readonly, closed, authors, records, blobs, clock>>

VARIABLES
  handles,    \* the Doc handles given out: h -> [st, doc]
  lastRet,    \* history: the last return of a facade operation
  view,       \* history, per calling thread: its last successful set_bytes and
              \* what the latest() and get_content_bytes() right after it gave
  watching,   \* which history is recorded in this run: "returns" or "views"
  asking      \* per thread: its latest() in flight, between the request and
              \* the end of the collection (node.rs:64-68)

callVars == <<handles, lastRet, view, watching, asking>>

VARIABLES
  \* the subscriptions started by Doc::subscribe (node.rs:126-146)
  subs,       \* per subscription: the forwarding task and what it has seen
  streams,    \* per event stream: the items the store has queued on it
  delivered,  \* history, per subscription: the lines printed and the calls of cb.event
  events      \* history: the events the store produced, oldest first

subVars == <<subs, streams, delivered, events>>

VARIABLES
  \* threads inside block_on (node.rs:281-286)
  foreign,    \* per thread unrelated to the executor: where its call is
  reentrant   \* per task calling in from an executor worker: [st, core]

bridgeVars == <<foreign, reentrant>>

asideVars == <<subVars, bridgeVars>>

vars == <<ticketVars, nodeVars, storeVars, callVars, subVars, bridgeVars>>

\* ------------------------------------------------------------------------
\* Results crossing the facade boundary: Result<T> of crate::error
\* ------------------------------------------------------------------------

None == [tag |-> "none"]
Ok(v) == [tag |-> "ok", val |-> v]
Err(kind, cause) == [tag |-> "err", kind |-> kind, cause |-> cause]
IsOk(r) == r.tag = "ok"
IsErr(r) == r.tag = "err"

\* crate::error::IrohError constructors (collaborator: the error module is
\* imported at node.rs:18, its kinds are those of spec.md section 7)
Error_runtime(cause) == Err("RuntimeInit", cause)
Error_node_create(cause) == Err("NodeCreate", cause)
Error_doc(cause) == Err("Doc", cause)
Error_author(cause) == Err("Author", cause)
Error_doc_ticket(cause) == Err("DocTicketParse", cause)

ErrorKinds == {"RuntimeInit", "NodeCreate", "Doc", "Author", "DocTicketParse"}

\* Result::map_err(f): an Ok passes through, an Err's payload goes through f
\* (a collaborator's failure is Err("internal", cause) before it is mapped)
MapErrRuntime(r) == IF IsErr(r) THEN Error_runtime(r.cause) ELSE r
MapErrNodeCreate(r) == IF IsErr(r) THEN Error_node_create(r.cause) ELSE r
MapErrDoc(r) == IF IsErr(r) THEN Error_doc(r.cause) ELSE r
MapErrAuthor(r) == IF IsErr(r) THEN Error_author(r.cause) ELSE r
MapErrDocTicket(r) == IF IsErr(r) THEN Error_doc_ticket(r.cause) ELSE r

\* ------------------------------------------------------------------------
\* Collaborator: the ticket codec of iroh::rpc_protocol::DocTicket
\* (to_bytes / from_bytes, Display / FromStr as base32 without padding)
\* ------------------------------------------------------------------------

ByteWidth == 8
SymbolWidth == 5
Alphabet == <<"a", "b", "c", "d", "e", "f", "g", "h", "i", "j", "k", "l", "m",
              "n", "o", "p", "q", "r", "s", "t", "u", "v", "w", "x", "y", "z",
              "2", "3", "4", "5", "6", "7">>

\* the w low bits of n, most significant first
RECURSIVE ToBits(_, _)
ToBits(n, w) == IF w = 0 THEN <<>> ELSE ToBits(n \div 2, w - 1) \o <<n % 2>>

RECURSIVE FromBits(_)
FromBits(bs) ==
  IF bs = <<>> THEN 0 ELSE 2 * FromBits(SubSeq(bs, 1, Len(bs) - 1)) + bs[Len(bs)]

RECURSIVE BytesToBits(_)
BytesToBits(bytes) ==
  IF bytes = <<>> THEN <<>>
  ELSE ToBits(Head(bytes), ByteWidth) \o BytesToBits(Tail(bytes))

RECURSIVE Chunk(_, _)
Chunk(bs, w) ==
  IF bs = <<>> THEN <<>>
  ELSE IF Len(bs) <= w THEN <<bs>>
  ELSE <<SubSeq(bs, 1, w)>> \o Chunk(SubSeq(bs, w + 1, Len(bs)), w)

RECURSIVE Zeros(_)
Zeros(n) == IF n = 0 THEN <<>> ELSE <<0>> \o Zeros(n - 1)

PadTo(bs, w) == bs \o Zeros(w - Len(bs))

SymbolIndex(ch) == CHOOSE i \in 1..Len(Alphabet) : Alphabet[i] = ch
IsSymbol(ch) == \E i \in 1..Len(Alphabet) : Alphabet[i] = ch

\* base32 of a byte sequence: 5-bit groups, the last one padded with zeros
Base32Encode(bytes) ==
  LET groups == Chunk(BytesToBits(bytes), SymbolWidth)
  IN  [i \in 1..Len(groups) |-> Alphabet[FromBits(PadTo(groups[i], SymbolWidth)) + 1]]

RECURSIVE SymbolsToBits(_)
SymbolsToBits(text) ==
  IF text = <<>> THEN <<>>
  ELSE ToBits(SymbolIndex(Head(text)) - 1, SymbolWidth) \o SymbolsToBits(Tail(text))

\* base32 decoding: every character a symbol, the bits left over after the
\* last whole byte fewer than one symbol and all zero
Base32Decode(text) ==
  IF \E i \in 1..Len(text) : ~IsSymbol(text[i]) THEN Err("internal", "symbol")
  ELSE LET bits == SymbolsToBits(text)
           n == Len(bits) \div ByteWidth
           rest == SubSeq(bits, n * ByteWidth + 1, Len(bits))
       IN  IF Len(rest) >= SymbolWidth THEN Err("internal", "length")
           ELSE IF \E i \in 1..Len(rest) : rest[i] # 0 THEN Err("internal", "trailing")
           ELSE Ok([i \in 1..n |->
                     FromBits(SubSeq(bits, (i - 1) * ByteWidth + 1, i * ByteWidth))])

ModeTag(mode) == IF mode = "Read" THEN 0 ELSE 1

\* DocTicket::to_bytes: the document id, the access mode, the peers as a
\* length-prefixed list
TicketToBytes(t) == <<t.doc, ModeTag(t.mode), Len(t.peers)>> \o t.peers

\* DocTicket::from_bytes: the inverse, failing on a short or ill-formed input
TicketFromBytes(bytes) ==
  IF Len(bytes) < 3 THEN Err("internal", "eof")
  ELSE IF bytes[2] \notin {0, 1} THEN Err("internal", "mode")
  ELSE IF bytes[3] # Len(bytes) - 3 THEN Err("internal", "peers")
  ELSE Ok([doc |-> bytes[1],
           mode |-> IF bytes[2] = 0 THEN "Read" ELSE "Write",
           peers |-> SubSeq(bytes, 4, Len(bytes))])

\* impl Display / impl FromStr for iroh::rpc_protocol::DocTicket
TicketDisplay(t) == Base32Encode(TicketToBytes(t))
TicketParse(text) ==
  LET d == Base32Decode(text)
  IN  IF IsErr(d) THEN d ELSE TicketFromBytes(d.val)

\* ------------------------------------------------------------------------
\* DocTicket (node.rs:161-175)
\* ------------------------------------------------------------------------

\* a slip the derive(Debug) of node.rs:161 invites: the Debug form, not Display
to_string_debug(ticket) ==
  <<"D", "o", "c", "T", "i", "c", "k", "e", "t", "(">> \o TicketDisplay(ticket) \o <<")">>

\* DocTicket::to_string
to_string(ticket) == TicketDisplay(ticket)

\* DocTicket::from_string
from_string(content) == MapErrDocTicket(TicketParse(content))

\* ------------------------------------------------------------------------
\* Bounds and input sets
\* ------------------------------------------------------------------------

MaxHandles == 2
MaxWrites == 2
MaxNodeWrites == 1
DocIds == {7, 200}
ShareModes == {"Read", "Write"}
Threads == {"t1", "t2"}
AuthorIds == {"a1", "a2"}
Keys == {"k1", "k2"}
Values == {"hello", "world"}
Handles == 1..MaxHandles

\* the thread whose calls are followed where threads are not told apart
Caller == "t1"

\* texts a caller may hand to from_string that no ticket printed
CallerTexts == {<<>>, <<"a", "!">>, <<"a", "4", "a", "a", "b">>,
                <<"a", "4", "a", "a", "a">>, <<"a", "4", "a", "a", "4">>}

\* worker_threads(2)
WorkerThreads == 2

\* the tasks Node::builder(..).spawn() starts on the executor
NodeTasks == {"service", "sync"}

\* the subscriptions a run may hold at once
SubSlots == {1, 2}

\* the events the store produces in a run, and the error items on streams
MaxEvents == 2
MaxErrs == 1

\* the threads that call in from outside the executor, and the tasks that
\* call in from one of its workers
ForeignThreads == {"f1", "f2"}
MaxReentrant == 2
ReentrantTasks == 1..MaxReentrant

\* the address lists a node may know of itself when it mints a ticket
AddrLists == {<<>>, <<1>>, <<255>>, <<1, 255>>}

\* ------------------------------------------------------------------------
\* Collaborator: the node's store, reached through the RPC client
\* (iroh::client::Iroh / iroh::client::Doc over a flume connection)
\* ------------------------------------------------------------------------

\* content addressing of the blob store
Hash(v) == CASE v = "hello" -> 11 [] v = "world" -> 22 [] v = "k1" -> 33 [] OTHER -> 44
ContentOf(h) == CHOOSE v \in Values \cup Keys : Hash(v) = h

\* a request is served by the node service task, which runs on the executor
ServiceUp == runtime = "running" /\ "service" \in tasks

\* the failure every request meets before it reaches the store, None if none
Transport(fault) ==
  IF ~ServiceUp THEN Err("internal", "shutdown")
  ELSE IF fault THEN Err("internal", "rpc")
  ELSE None

DocOpen(doc) == doc \in docs /\ doc \notin closed

\* GetFilter::latest(): per (author, key) the entry written last
LatestEntries(doc) ==
  {e \in records :
     /\ e.doc = doc
     /\ \A f \in records :
          (f.doc = doc /\ f.author = e.author /\ f.key = e.key) => f.ts <= e.ts}

\* the answer to a get request: the stream of its entries, or a failure
StoreGet(doc, fault) ==
  IF Transport(fault) # None THEN Transport(fault)
  ELSE IF ~DocOpen(doc) THEN Err("internal", "closed")
  ELSE Ok("stream")

\* the entries the store reads for a get request with this filter
StoreEntries(doc, filter) ==
  IF filter = "latest" THEN LatestEntries(doc) ELSE {e \in records : e.doc = doc}

NewEntry(doc, author, key, value) ==
  [doc |-> doc, author |-> author, key |-> key, hash |-> Hash(value), ts |-> clock + 1]

StoreSetBytes(doc, author, key, value, fault) ==
  IF Transport(fault) # None THEN Transport(fault)
  ELSE IF ~DocOpen(doc) THEN Err("internal", "closed")
  ELSE IF doc \in readonly THEN Err("internal", "readonly")
  ELSE IF author \notin authors THEN Err("internal", "author")
  ELSE Ok(NewEntry(doc, author, key, value))

StoreGetContentBytes(doc, entry, fault) ==
  IF Transport(fault) # None THEN Transport(fault)
  ELSE IF ~DocOpen(doc) THEN Err("internal", "closed")
  ELSE IF entry.hash \notin blobs THEN Err("internal", "missing")
  ELSE Ok(ContentOf(entry.hash))

StoreCreateDoc(id, fault) ==
  IF Transport(fault) # None THEN Transport(fault) ELSE Ok(id)

StoreCreateAuthor(id, fault) ==
  IF Transport(fault) # None THEN Transport(fault) ELSE Ok(id)

\* the document the store tracks after an import, and the capability it
\* holds for it
StoreImportDoc(ticket, fault) ==
  IF Transport(fault) # None THEN Transport(fault)
  ELSE Ok([doc |-> ticket.doc, mode |-> ticket.mode])

\* a read ticket adds no capability, a write ticket gives the write
\* capability
ReadOnlyAfterImport(ticket) ==
  IF ticket.mode = "Write" THEN readonly \ {ticket.doc}
  ELSE IF ticket.doc \in docs THEN readonly
  ELSE readonly \cup {ticket.doc}

StoreStats(fault) ==
  IF Transport(fault) # None THEN Transport(fault) ELSE Ok(clock)

StoreDocShare(doc, mode, peers, fault) ==
  IF Transport(fault) # None THEN Transport(fault)
  ELSE IF ~DocOpen(doc) THEN Err("internal", "closed")
  ELSE Ok([doc |-> doc, mode |-> mode, peers |-> peers])

\* ------------------------------------------------------------------------
\* The facade's operations (node.rs:57-147, 184-279): each awaits one store
\* request through block_on and maps a failure to its error kind
\* ------------------------------------------------------------------------

\* a slip: the query made with GetFilter::all(), every entry ever written
GetFilterAll == "all"

\* GetFilter::latest(), the filter Doc::latest asks with
GetFilterLatest == "latest"

\* Doc::latest: the `?` on the answer to the request, the items collected
\* from the stream (an Err item fails the collection), map_err(Error::doc)
latest(get_result, items) ==
  MapErrDoc(IF IsErr(get_result) THEN get_result ELSE items)

\* Doc::share_write
share_write(doc, peers, fault) == MapErrDoc(StoreDocShare(doc, "Write", peers, fault))

\* Doc::share_read
share_read(doc, peers, fault) == MapErrDoc(StoreDocShare(doc, "Read", peers, fault))

\* a slip the two Vec<u8> parameters invite: key and value changing places
set_bytes_swapped(doc, author, key, value, fault) ==
  MapErrDoc(StoreSetBytes(doc, author, value, key, fault))

\* Doc::set_bytes
set_bytes(doc, author, key, value, fault) ==
  MapErrDoc(StoreSetBytes(doc, author, key, value, fault))

\* Doc::get_content_bytes
get_content_bytes(doc, entry, fault) ==
  MapErrDoc(StoreGetContentBytes(doc, entry, fault))

\* IrohNode::create_doc
create_doc(id, fault) == MapErrDoc(StoreCreateDoc(id, fault))

\* a copy-and-paste slip: create_author mapping its failure as the others do
create_author_as_doc(id, fault) == MapErrDoc(StoreCreateAuthor(id, fault))

\* a slip: one author of the node handed out on every call
create_author_again(id, fault) == MapErrAuthor(StoreCreateAuthor("a1", fault))

\* IrohNode::create_author
create_author(id, fault) == MapErrAuthor(StoreCreateAuthor(id, fault))

\* a slip: the facade asking for the write capability whatever the ticket
import_doc_as_writer(ticket, fault) ==
  MapErrDoc(StoreImportDoc([ticket EXCEPT !.mode = "Write"], fault))

\* a slip: import_doc asking the store for a document of its own, as
\* create_doc does, instead of the ticket's
import_doc_anew(ticket, fault) ==
  MapErrDoc(StoreImportDoc([ticket EXCEPT !.doc = IF @ = 7 THEN 200 ELSE 7], fault))

\* IrohNode::import_doc: the ticket goes to the store as it is
import_doc(ticket, fault) == MapErrDoc(StoreImportDoc(ticket, fault))

\* IrohNode::stats
stats(fault) == MapErrDoc(StoreStats(fault))

\* what a return of operation op looks like from outside
Ret(op, r) ==
  [op |-> op, tag |-> r.tag, kind |-> IF IsErr(r) THEN r.kind ELSE "",
   cause |-> IF IsErr(r) THEN r.cause ELSE "", down |-> pc = "dropped"]

\* the return as it is recorded, where returns are recorded
Noted(op, r) == IF watching \in {"returns", "access"} THEN Ret(op, r) ELSE lastRet

NoRet == [op |-> "", tag |-> "none", kind |-> "", cause |-> "", down |-> FALSE]

EmptyView == [wrote |-> None, raced |-> FALSE, list |-> None, got |-> None]

FreeHandle == [st |-> "free", doc |-> 0, via |-> "", asked |-> 0]

\* a thread with no latest() in flight
NotAsking ==
  [st |-> "idle", h |-> 0, doc |-> 0, filter |-> "", snap |-> {}, from |-> 0, upto |-> 0]

\* thread t is not inside a call: a thread waits in block_on until its
\* call returns
Free(t) == asking[t].st = "idle"

\* ------------------------------------------------------------------------
\* IrohNode::new (node.rs:185-229), step by step
\* ------------------------------------------------------------------------

\* a slip: the runtime kept alive on the error path (leaked, or parked in a
\* static) instead of being dropped with the frame
LeakNewLocals(started) == [runtime |-> runtime, pool |-> pool, tasks |-> started]

\* leaving new through `?` drops its locals: tokio_rt (the executor shuts down
\* and drops the tasks spawned on it), rt and tpc (the pool's threads end)
DropNewLocals(started) == [runtime |-> "shutdown", pool |-> "stopped", tasks |-> {}]

\* new has returned Err(r) after `started` tasks were spawned
NewFails(r, started) ==
  LET left == DropNewLocals(started)
  IN  /\ newResult' = r
      /\ lastRet' = Noted("new", r)
      /\ pc' = "failed"
      /\ runtime' = left.runtime
      /\ pool' = left.pool
      /\ tasks' = left.tasks
      /\ UNCHANGED <<asideVars, ticketVars, storeVars, handles, view, watching, asking>>

\* tokio::runtime::Builder .. build(), LocalPoolHandle::new, Handle::new
NewBuildRuntime ==
  /\ pc = "init"
  /\ \E ok \in BOOLEAN :
       IF ok
       THEN /\ pc' = "runtime"
            /\ runtime' = "running"
            /\ pool' = "running"
            /\ UNCHANGED <<asideVars, tasks, newResult, ticketVars, storeVars, callVars>>
       ELSE /\ pc' = "failed"
            /\ newResult' = MapErrRuntime(Err("internal", "build"))
            /\ lastRet' = Noted("new", MapErrRuntime(Err("internal", "build")))
            /\ UNCHANGED <<asideVars, runtime, pool, tasks, ticketVars, storeVars,
                           handles, view, watching, asking>>

\* tempfile::tempdir()
NewTempdir ==
  /\ pc = "runtime"
  /\ \E ok \in BOOLEAN :
       IF ok
       THEN /\ pc' = "tempdir"
            /\ UNCHANGED <<asideVars, runtime, pool, tasks, newResult, ticketVars,
                           storeVars, callVars>>
       ELSE NewFails(MapErrNodeCreate(Err("internal", "tempdir")), {})

\* inside block_on: Store::new, create_dir_all, flat::Store::load
NewStores ==
  /\ pc = "tempdir"
  /\ \E failAt \in {"none", "docs", "blobdir", "blobs"} :
       IF failAt = "none"
       THEN /\ pc' = "stores"
            /\ UNCHANGED <<asideVars, runtime, pool, tasks, newResult, ticketVars,
                           storeVars, callVars>>
       ELSE NewFails(MapErrNodeCreate(Err("internal", failAt)), {})

\* inside block_on: Node::builder(..).spawn(), then Ok(IrohNode { .. })
NewSpawn ==
  /\ pc = "stores"
  /\ \E ok \in BOOLEAN, started \in SUBSET NodeTasks :
       IF ok
       THEN /\ pc' = "alive"
            /\ tasks' = NodeTasks
            /\ newResult' = Ok("node")
            /\ lastRet' = Noted("new", Ok("node"))
            /\ UNCHANGED <<asideVars, runtime, pool, ticketVars, storeVars, handles, view, watching, asking>>
       ELSE NewFails(MapErrNodeCreate(Err("internal", "spawn")), started)

\* what shutting the executor down does to a subscription's task: a task
\* that waits is dropped, a task inside its callback is in the middle of a
\* poll and goes on until its next await
TaskAtShutdown(st) ==
  IF st \in {"spawned", "open"} THEN "ended" ELSE st

\* the owner lets go of the IrohNode: tokio_rt is dropped with it; the Doc
\* handles still held keep their clone of the Handle (and of the pool)
DropNode ==
  /\ pc = "alive"
  /\ pc' = "dropped"
  /\ runtime' = "shutdown"
  /\ tasks' = {}
  /\ pool' = IF \E h \in Handles : handles[h].st = "live" THEN pool ELSE "stopped"
  /\ subs' = [s \in SubSlots |-> [subs[s] EXCEPT !.st = TaskAtShutdown(@)]]
  /\ streams' = [s \in SubSlots |-> [streams[s] EXCEPT !.open = FALSE]]
  /\ UNCHANGED <<delivered, events>>
  /\ UNCHANGED <<bridgeVars, newResult, ticketVars, storeVars, callVars>>

\* ------------------------------------------------------------------------
\* Calls on the node (node.rs:235-279)
\* ------------------------------------------------------------------------

\* handles are numbered in the order they are given out
NextHandle == CHOOSE h \in Handles :
                /\ handles[h].st = "free"
                /\ \A g \in Handles : g < h => handles[g].st # "free"

HandleLeft == \E h \in Handles : handles[h].st = "free"

\* the handle a successful create_doc / import_doc returns:
\* Arc::new(Doc { inner: doc, rt: self.async_runtime.clone() })
\* via and asked are history, kept where access is watched: how the caller
\* came by the handle ("created", or the mode of the ticket it imported)
\* and the document of that ticket
GiveHandle(r, doc, via, asked) ==
  IF IsOk(r)
  THEN handles' = [handles EXCEPT ![NextHandle] =
                    [st |-> "live", doc |-> doc,
                     via |-> IF watching = "access" THEN via ELSE "",
                     asked |-> IF watching = "access" THEN asked ELSE 0]]
  ELSE UNCHANGED handles

\* thread t made a call that is neither set_bytes, latest nor get_content_bytes
Forget(t) == view' = [view EXCEPT ![t] = EmptyView]

\* node.create_doc() on thread t
CreateDoc(t) ==
  /\ Free(t)
  /\ pc = "alive"
  /\ HandleLeft
  /\ \E id \in DocIds \ docs, fault \in BOOLEAN :
       LET r == create_doc(id, fault)
       IN  /\ docs' = IF IsOk(r) THEN docs \cup {id} ELSE docs
           /\ GiveHandle(r, id, "created", 0)
           /\ lastRet' = Noted("create_doc", r)
  /\ Forget(t)
  /\ UNCHANGED <<asideVars, readonly, closed, authors, records, blobs, clock, watching, asking,
                 nodeVars, ticketVars>>

\* the store's next author id
AuthorOrder == <<"a1", "a2">>
FreshAuthor == AuthorOrder[Cardinality(authors) + 1]

\* node.create_author() on thread t
CreateAuthor(t) ==
  /\ Free(t)
  /\ pc = "alive"
  /\ authors # AuthorIds
  /\ \E fault \in BOOLEAN :
       LET r == create_author(FreshAuthor, fault)
       IN  /\ authors' = IF IsOk(r) THEN authors \cup {r.val} ELSE authors
           /\ lastRet' = Noted("create_author", r)
           /\ view' = [view EXCEPT ![t] =
                          IF watching = "authors" THEN [EmptyView EXCEPT !.got = r]
                          ELSE EmptyView]
  /\ UNCHANGED <<asideVars, docs, readonly, closed, records, blobs, clock, handles, watching, asking, nodeVars,
                 ticketVars>>

\* the tickets a caller may bring to import_doc
ImportTickets ==
  {[doc |-> d, mode |-> m, peers |-> <<255>>] : d \in DocIds, m \in ShareModes}

WriteTickets == {ticket \in ImportTickets : ticket.mode = "Write"}

\* the ticket the caller holds from share_read / share_write
MintedTickets == IF IsOk(tkTicket) THEN {tkTicket.val} ELSE {}

\* node.import_doc(ticket) on thread t
ImportDoc(t, tickets) ==
  /\ Free(t)
  /\ pc = "alive"
  /\ HandleLeft
  /\ \E ticket \in tickets, fault \in BOOLEAN :
       LET r == import_doc(ticket, fault)
       IN  /\ docs' = IF IsOk(r) THEN docs \cup {r.val.doc} ELSE docs
           /\ readonly' = IF IsOk(r) THEN ReadOnlyAfterImport(r.val) ELSE readonly
           /\ GiveHandle(r, IF IsOk(r) THEN r.val.doc ELSE 0, ticket.mode, ticket.doc)
           /\ lastRet' = Noted("import_doc", r)
  /\ Forget(t)
  /\ UNCHANGED <<asideVars, closed, authors, records, blobs, clock, watching, asking, nodeVars,
                 ticketVars>>

\* node.stats() on thread t
Stats(t) ==
  /\ Free(t)
  /\ pc = "alive"
  /\ \E fault \in BOOLEAN : lastRet' = Noted("stats", stats(fault))
  /\ Forget(t)
  /\ UNCHANGED <<asideVars, handles, watching, asking, storeVars, nodeVars, ticketVars>>

\* ------------------------------------------------------------------------
\* Calls on a Doc handle (node.rs:57-124); the handle outlives the node
\* ------------------------------------------------------------------------

Held(h) == handles[h].st = "live"

\* a slip: a Drop for Doc that closes the document in the store
CloseOnDrop(h) == closed \cup {handles[h].doc}

\* a slip: a Drop for Doc that aborts the tasks subscribed to its document
CancelOnDrop(h) ==
  [s \in SubSlots |->
     IF subs[s].doc = handles[h].doc /\ subs[s].st \in {"spawned", "open", "incb"}
     THEN [subs[s] EXCEPT !.st = "ended"]
     ELSE subs[s]]

\* the task of a subscription owns its clone of the client, and the
\* JoinHandle of spawn is let go: dropping a Doc does nothing to a task
SubsAfterDrop(h) == subs

\* dropping a Doc drops its clone of the client and of the Handle; the
\* struct has no Drop of its own and the store is not told
StoreAfterDrop(h) == closed

\* the last reference to the handle h goes away; a call borrows the Doc
\* (&self) until it returns, so none is in flight through h
DropHandle(h) ==
  /\ Held(h)
  /\ \A t \in Threads : asking[t].st # "idle" => asking[t].h # h
  /\ handles' = [handles EXCEPT ![h].st = "dropped"]
  /\ closed' = StoreAfterDrop(h)
  /\ pool' = IF pc = "dropped" /\ \A g \in Handles \ {h} : ~Held(g)
             THEN "stopped" ELSE pool
  /\ subs' = SubsAfterDrop(h)
  /\ UNCHANGED <<streams, delivered, events, bridgeVars>>
  /\ UNCHANGED <<docs, readonly, authors, records, blobs, clock, view, watching, asking, lastRet, pc,
                 runtime, tasks, newResult, ticketVars>>

\* the store produces an event of a document: it is queued on every stream
\* of the document that is open
Publish(doc, kind) ==
  LET id == Len(events) + 1
  IN  /\ events' = Append(events, [doc |-> doc, kind |-> kind])
      /\ streams' = [s \in SubSlots |->
                       IF streams[s].open /\ streams[s].doc = doc
                       THEN [streams[s] EXCEPT
                               !.q = Append(@, [tag |-> "ok", kind |-> kind, id |-> id])]
                       ELSE streams[s]]

\* doc.set_bytes(author, key, value) on thread t through handle h
SetBytes(t, h, author, key, value, fault) ==
  /\ Held(h)
  /\ Free(t)
  /\ LET doc == handles[h].doc
         r == set_bytes(doc, author, key, value, fault)
         mine == [doc |-> doc, author |-> author, key |-> key, value |-> value]
         Overwritten(u) ==
           /\ view[u].wrote # None
           /\ view[u].list = None
           /\ asking[u].st # "read"
           /\ view[u].wrote.doc = doc
           /\ view[u].wrote.author = author
           /\ view[u].wrote.key = key
     IN  /\ records' = IF IsOk(r) THEN records \cup {r.val} ELSE records
         /\ blobs' = IF IsOk(r) THEN blobs \cup {r.val.hash} ELSE blobs
         /\ clock' = IF IsOk(r) THEN clock + 1 ELSE clock
         /\ view' = IF watching # "views" THEN view
                    ELSE [u \in Threads |->
                           IF u = t
                           THEN IF IsOk(r) THEN [EmptyView EXCEPT !.wrote = mine]
                                ELSE EmptyView
                           ELSE IF IsOk(r) /\ Overwritten(u)
                                THEN [view[u] EXCEPT !.raced = TRUE]
                                ELSE view[u]]
         /\ lastRet' = Noted("set_bytes", r)
         /\ IF IsOk(r) THEN Publish(doc, "InsertLocal")
            ELSE UNCHANGED <<streams, events>>
  /\ UNCHANGED <<subs, delivered>>
  /\ UNCHANGED <<bridgeVars, docs, readonly, closed, authors, handles, watching, asking, nodeVars, ticketVars>>

\* doc.latest() returns r to thread t
LatestReturn(t, doc, r) ==
  LET next == view[t].wrote # None /\ view[t].list = None /\ view[t].wrote.doc = doc
  IN  /\ view' = IF watching \notin {"views", "reads"} THEN view
                 ELSE [view EXCEPT ![t] =
                        IF next THEN [@ EXCEPT !.list = r]
                        ELSE [EmptyView EXCEPT !.list = r]]
      /\ lastRet' = Noted("latest", r)

\* doc.latest() on thread t through handle h, to its first await: the
\* request get(GetFilter::latest()) is answered with a stream, or fails and
\* `?` returns the error
LatestAsk(t, h) ==
  /\ Held(h)
  /\ Free(t)
  /\ \E fault \in BOOLEAN :
       LET doc == handles[h].doc
           get_result == StoreGet(doc, fault)
       IN  IF IsErr(get_result)
           THEN /\ LatestReturn(t, doc, latest(get_result, None))
                /\ UNCHANGED asking
           ELSE /\ asking' = [asking EXCEPT ![t] =
                                [st |-> "asked", h |-> h, doc |-> doc,
                                 filter |-> GetFilterLatest,
                                 snap |-> {},
                                 from |-> IF watching = "reads" THEN clock ELSE 0,
                                 upto |-> 0]]
                /\ UNCHANGED <<view, lastRet>>
  /\ UNCHANGED <<asideVars, handles, watching, storeVars, nodeVars, ticketVars>>

\* the store reads the entries for the request of thread t, while the
\* thread waits and other threads and tasks run
StoreAnswer(t) ==
  /\ asking[t].st = "asked"
  /\ ServiceUp
  /\ asking' = [asking EXCEPT ![t] =
                  [asking[t] EXCEPT
                     !.st = "read",
                     !.snap = StoreEntries(asking[t].doc, asking[t].filter),
                     !.upto = IF watching = "reads" THEN clock ELSE 0]]
  /\ UNCHANGED <<asideVars, handles, lastRet, view, watching, storeVars, nodeVars,
                 ticketVars>>

\* doc.latest() on thread t, its second await: try_collect has taken every
\* item of the stream, or an Err item; the result goes through map_err
LatestCollect(t) ==
  /\ asking[t].st \in {"asked", "read"}
  /\ \E fault \in BOOLEAN :
       /\ asking[t].st = "asked" => Transport(fault) # None
       /\ LET items == IF Transport(fault) # None THEN Transport(fault)
                       ELSE Ok(asking[t].snap)
          IN  LatestReturn(t, asking[t].doc, latest(Ok("stream"), items))
  /\ asking' = [asking EXCEPT ![t] = NotAsking]
  /\ UNCHANGED <<asideVars, handles, watching, storeVars, nodeVars, ticketVars>>

\* the entries thread t may pass to get_content_bytes: those its last
\* latest() returned, or (views not recorded) those the store holds
EntriesOf(t) ==
  IF watching = "views" THEN (IF IsOk(view[t].list) THEN view[t].list.val ELSE {})
  ELSE records

\* doc.get_content_bytes(entry) on thread t through handle h
GetContentBytes(t, h) ==
  /\ Held(h)
  /\ Free(t)
  /\ \E entry \in EntriesOf(t), fault \in BOOLEAN :
       LET r == get_content_bytes(handles[h].doc, entry, fault)
       IN  /\ view' = IF watching # "views" THEN view
                      ELSE [view EXCEPT ![t].got = [entry |-> entry, res |-> r]]
           /\ lastRet' = Noted("get_content_bytes", r)
  /\ UNCHANGED <<asideVars, handles, watching, asking, storeVars, nodeVars, ticketVars>>

\* doc.share_write() / doc.share_read() on thread t through handle h
Share(t, h) ==
  /\ Held(h)
  /\ Free(t)
  /\ \E mode \in ShareModes, fault \in BOOLEAN :
       LET doc == handles[h].doc
           r == IF mode = "Write" THEN share_write(doc, <<1>>, fault)
                ELSE share_read(doc, <<1>>, fault)
       IN  lastRet' = Noted(IF mode = "Write" THEN "share_write" ELSE "share_read", r)
  /\ Forget(t)
  /\ UNCHANGED <<asideVars, handles, watching, asking, storeVars, nodeVars, ticketVars>>

\* DocTicket::from_string(text) on thread t, for a text of the caller's
ParseText(t) ==
  /\ Free(t)
  /\ \E text \in CallerTexts : lastRet' = Noted("from_string", from_string(text))
  /\ Forget(t)
  /\ UNCHANGED <<asideVars, handles, watching, asking, storeVars, nodeVars, ticketVars>>

\* ------------------------------------------------------------------------
\* The node from construction to drop, with its documents and handles
\* ------------------------------------------------------------------------

NoSub == [st |-> "none", doc |-> 0, sid |-> 0, from |-> 0, since |-> 0, errs |-> 0]

NoStream == [open |-> FALSE, doc |-> 0, q |-> <<>>]

InitSubs ==
  /\ subs = [s \in SubSlots |-> NoSub]
  /\ streams = [s \in SubSlots |-> NoStream]
  /\ delivered = [s \in SubSlots |-> <<>>]
  /\ events = <<>>

Outside == [st |-> "idle", core |-> FALSE, via |-> "none", ctx |-> "none"]

InitBridge ==
  /\ foreign = [f \in ForeignThreads |-> Outside]
  /\ reentrant = [w \in ReentrantTasks |-> Outside]

InitTicketIdle ==
  /\ tkTicket = None
  /\ tkText = <<>>
  /\ tkSrc = "none"
  /\ tkBack = None

InitStore ==
  /\ docs = {}
  /\ readonly = {}
  /\ closed = {}
  /\ authors = {}
  /\ records = {}
  /\ blobs = {}
  /\ clock = 0

InitCalls ==
  /\ handles = [h \in Handles |-> FreeHandle]
  /\ view = [t \in Threads |-> EmptyView]
  /\ lastRet = NoRet
  /\ asking = [t \in Threads |-> NotAsking]

Init ==
  /\ pc = "init"
  /\ runtime = "none"
  /\ pool = "none"
  /\ tasks = {}
  /\ newResult = None
  /\ InitStore
  /\ InitCalls
  /\ watching = "returns"
  /\ InitTicketIdle
  /\ InitSubs
  /\ InitBridge

Next ==
  \/ NewBuildRuntime
  \/ NewTempdir
  \/ NewStores
  \/ NewSpawn
  \/ DropNode
  \/ CreateDoc(Caller)
  \/ CreateAuthor(Caller)
  \/ ImportDoc(Caller, WriteTickets)
  \/ Stats(Caller)
  \/ \E h \in Handles : DropHandle(h)
  \/ \E h \in Handles, author \in AuthorIds, fault \in BOOLEAN :
       clock < MaxNodeWrites /\ SetBytes(Caller, h, author, "k1", "hello", fault)
  \/ \E h \in Handles : LatestAsk(Caller, h)
  \/ StoreAnswer(Caller)
  \/ LatestCollect(Caller)
  \/ \E h \in Handles : GetContentBytes(Caller, h)
  \/ \E h \in Handles : Share(Caller, h)
  \/ ParseText(Caller)

Spec == Init /\ [][Next]_vars

\* ------------------------------------------------------------------------
\* Properties of the node, its handles and its errors
\* ------------------------------------------------------------------------

DocOps == {"latest", "set_bytes", "get_content_bytes", "share_read", "share_write"}

\* C4, as the specification states it: a call made on a Doc handle after the
\* node and its executor are gone returns a Runtime-unavailable error.
ShutdownIsRuntimeUnavailable ==
  (lastRet.down /\ lastRet.op \in DocOps) =>
    (lastRet.tag = "err" /\ lastRet.kind = "RuntimeUnavailable")

\* C5: when IrohNode::new fails, no node and no handle exists, a failure
\* after the runtime was built is a NodeCreate error, and no executor
\* thread, pool thread or task of the attempt is left running.
NodeCreateAllOrNothing ==
  IsErr(newResult) =>
    /\ pc = "failed"
    /\ runtime # "running"
    /\ pool # "running"
    /\ tasks = {}
    /\ \A h \in Handles : handles[h].st = "free"
    /\ (newResult.cause # "build" => newResult.kind = "NodeCreate")

\* C5 happens: spawn failed after it had started work on the executor
NodeCreateFailedAtSpawn ==
  /\ IsErr(newResult)
  /\ newResult.cause = "spawn"
  /\ runtime = "shutdown"

\* a handle's requests reach the store and find its document
Operable(h) == ServiceUp /\ DocOpen(handles[h].doc)

\* C6: while the node is alive every handle given out and still held is
\* operable, whatever happened to other handles; no call made while the
\* node is alive is refused for the state of a handle or of the service.
HandlesStayOperable ==
  /\ pc = "alive" => \A h \in Handles : Held(h) => Operable(h)
  /\ ~lastRet.down => lastRet.cause \notin {"closed", "shutdown"}

\* C6 happens: one handle to a document was dropped and a call through
\* another handle to the same document succeeded
HandleSurvivesSibling ==
  \E h, g \in Handles :
    /\ handles[h].st = "dropped"
    /\ Held(g)
    /\ handles[g].doc = handles[h].doc
    /\ pc = "alive"
    /\ lastRet.op = "set_bytes"
    /\ lastRet.tag = "ok"

KindFor(op) ==
  IF op = "create_author" THEN "Author"
  ELSE IF op = "from_string" THEN "DocTicketParse"
  ELSE "Doc"

\* C10: a failure leaves an operation as the one error kind of that
\* operation (new: RuntimeInit for the runtime, NodeCreate for the rest), and
\* a return is either a value or an error.
TypedErrors ==
  /\ lastRet.tag \in {"none", "ok", "err"}
  /\ lastRet.tag # "err" => lastRet.kind = ""
  /\ (lastRet.tag = "err" /\ lastRet.op = "new") =>
       lastRet.kind = IF lastRet.cause = "build" THEN "RuntimeInit" ELSE "NodeCreate"
  /\ (lastRet.tag = "err" /\ lastRet.op # "new") => lastRet.kind = KindFor(lastRet.op)

\* C10 happens: create_author failed, the one operation with the Author kind
AuthorErrorSeen ==
  /\ lastRet.op = "create_author"
  /\ lastRet.tag = "err"


\* ------------------------------------------------------------------------
\* Read after write: two threads on one document of a running node
\* ------------------------------------------------------------------------

\* a node after new, create_doc and create_author have returned
InitRunningWith(docSet, authorSet) ==
  /\ pc = "alive"
  /\ runtime = "running"
  /\ pool = "running"
  /\ tasks = NodeTasks
  /\ newResult = Ok("node")
  /\ \E d \in docSet :
       /\ docs = {d}
       /\ handles = [h \in Handles |->
                      IF h = 1
                      THEN [st |-> "live", doc |-> d, asked |-> 0,
                            via |-> IF watching = "access" THEN "created" ELSE ""]
                      ELSE FreeHandle]
  /\ readonly = {}
  /\ closed = {}
  /\ authors = authorSet
  /\ records = {}
  /\ blobs = {}
  /\ clock = 0
  /\ view = [t \in Threads |-> EmptyView]
  /\ lastRet = NoRet
  /\ asking = [t \in Threads |-> NotAsking]
  /\ InitTicketIdle
  /\ InitSubs
  /\ InitBridge

InitRunning(docSet) == InitRunningWith(docSet, {"a1"})

InitRaw == watching = "views" /\ InitRunning({7})

NextRaw ==
  \/ \E t \in Threads, h \in Handles, author \in AuthorIds, key \in Keys,
        value \in Values, fault \in BOOLEAN :
       clock < MaxWrites /\ SetBytes(t, h, author, key, value, fault)
  \/ \E t \in Threads, h \in Handles : LatestAsk(t, h)
  \/ \E t \in Threads : StoreAnswer(t)
  \/ \E t \in Threads : LatestCollect(t)
  \/ \E t \in Threads, h \in Handles : GetContentBytes(t, h)

SpecRaw == InitRaw /\ [][NextRaw]_vars

\* the entries of thread t's list that carry the author and key it wrote
Mine(t) ==
  {e \in view[t].list.val :
     e.author = view[t].wrote.author /\ e.key = view[t].wrote.key}

ReadBack(t) == view[t].got # None /\ view[t].got.entry \in Mine(t) /\ IsOk(view[t].got.res)

\* C2, as the specification states it: after a successful set_bytes the
\* same thread's next latest() holds an entry with that author and key, and
\* get_content_bytes on it gives the value written, whatever other threads do.
ReadAfterWriteAlways ==
  \A t \in Threads :
    (view[t].wrote # None /\ IsOk(view[t].list)) =>
      /\ Mine(t) # {}
      /\ ReadBack(t) => view[t].got.res.val = view[t].wrote.value

\* C2, amended: the entry is there, and its content is the value written
\* unless another thread's set_bytes for the same author and key completed
\* between the set_bytes and the latest().
ReadAfterWrite ==
  \A t \in Threads :
    (view[t].wrote # None /\ IsOk(view[t].list)) =>
      /\ Mine(t) # {}
      /\ (ReadBack(t) /\ ~view[t].raced) => view[t].got.res.val = view[t].wrote.value

\* C2 happens: a thread wrote, listed and read its value back while the
\* other thread had written to the document in between
ReadAfterWriteWitness ==
  \E t \in Threads :
    /\ view[t].wrote # None
    /\ IsOk(view[t].list)
    /\ ReadBack(t)
    /\ ~view[t].raced
    /\ clock > 1

\* ------------------------------------------------------------------------
\* The ticket round trip of tests::test_doc_create (node.rs:301-307)
\* ------------------------------------------------------------------------

InitTicket == watching = "returns" /\ InitRunning(DocIds)

\* doc.share_write() / doc.share_read(), the ticket kept by the caller
ShareTicket(h) ==
  /\ Free(Caller)
  /\ Held(h)
  /\ tkTicket = None
  /\ \E mode \in ShareModes, peers \in AddrLists, fault \in BOOLEAN :
       LET doc == handles[h].doc
           r == IF mode = "Write" THEN share_write(doc, peers, fault)
                ELSE share_read(doc, peers, fault)
       IN  /\ tkTicket' = r
           /\ lastRet' = Noted(IF mode = "Write" THEN "share_write" ELSE "share_read", r)
  /\ UNCHANGED <<asideVars, tkText, tkSrc, tkBack, handles, view, watching, asking, storeVars, nodeVars>>

\* doc_ticket.to_string()
TicketToString ==
  /\ IsOk(tkTicket)
  /\ tkSrc = "none"
  /\ tkText' = to_string(tkTicket.val)
  /\ tkSrc' = "ticket"
  /\ UNCHANGED <<asideVars, tkTicket, tkBack, callVars, storeVars, nodeVars>>

\* the caller brings a text of its own
CallerText ==
  /\ tkSrc = "none"
  /\ tkText' \in CallerTexts
  /\ tkSrc' = "caller"
  /\ UNCHANGED <<asideVars, tkTicket, tkBack, callVars, storeVars, nodeVars>>

\* DocTicket::from_string(text)
TicketFromString ==
  /\ tkSrc # "none"
  /\ tkBack = None
  /\ tkBack' = from_string(tkText)
  /\ lastRet' = Noted("from_string", from_string(tkText))
  /\ UNCHANGED <<asideVars, tkTicket, tkText, tkSrc, handles, view, watching, asking, storeVars, nodeVars>>

NextTicket ==
  \/ \E h \in Handles : ShareTicket(h)
  \/ TicketToString
  \/ CallerText
  \/ TicketFromString

SpecTicket == InitTicket /\ [][NextTicket]_vars

\* C1: a ticket returned by share_write or share_read, printed by to_string
\* and parsed by from_string, comes back as a ticket with the same bytes.
TicketRoundTrip ==
  (tkSrc = "ticket" /\ tkBack # None) =>
    /\ IsOk(tkBack)
    /\ TicketToBytes(tkBack.val) = TicketToBytes(tkTicket.val)

\* C1 happens: a ticket with a peer was printed and parsed back
TicketRoundTripWitness ==
  /\ tkSrc = "ticket"
  /\ IsOk(tkBack)
  /\ IsOk(tkTicket)
  /\ tkTicket.val.peers # <<>>

\* ------------------------------------------------------------------------
\* Doc::subscribe and its forwarding task (node.rs:126-146)
\* ------------------------------------------------------------------------

\* a slip: two arms of the match with their right-hand sides exchanged
LiveEventFromSwapped(kind) ==
  CASE kind = "InsertLocal" -> "InsertLocal"
    [] kind = "InsertRemote" -> "ContentReady"
    [] kind = "ContentReady" -> "InsertRemote"

\* impl From<iroh::sync::LiveEvent> for LiveEvent
LiveEventFrom(kind) ==
  CASE kind = "InsertLocal" -> "InsertLocal"
    [] kind = "InsertRemote" -> "InsertRemote"
    [] kind = "ContentReady" -> "ContentReady"

StoreEventKinds == {"InsertLocal", "InsertRemote", "ContentReady"}

\* a slip: the tasks of one document share the stream the first one opened
OpenSharedStream(s) == 1

\* client.subscribe(): every call opens a stream of its own
OpenStream(s) == s

\* a slip: the Err arm of the match leaves the loop
LoopBreaksOnError == "ended"

\* the Err arm of the match: the error is printed and the loop goes on
\* to sub.next()
LoopAfterError == "open"

\* the Ok arm: whatever cb.event returned, the loop goes on to sub.next()
LoopAfterEvent(result) == "open"

\* a slip: `loop` with `if let Some(event)`, which asks the stream again
\* after it has ended
LoopIgnoresEnd == "open"

\* while let Some(event): the loop is left when sub.next() yields None,
\* and the task is finished
LoopAtEnd == "ended"

\* println!("got event: {:?}", event), for every item the stream yields,
\* an error item included: the store's event as it came
GotEvent(item) ==
  IF item.tag = "ok" THEN [line |-> "got event", kind |-> item.kind, id |-> item.id]
  ELSE [line |-> "got event", kind |-> "Err", id |-> 0]

\* cb.event(event.into()): the call of the callback
CbEvent(item) == [line |-> "event", kind |-> LiveEventFrom(item.kind), id |-> item.id]

RpcError == [line |-> "rpc error", kind |-> "", id |-> 0]

CbError == [line |-> "cb error", kind |-> "", id |-> 0]

\* the slot the next subscription takes
FreeSlot == CHOOSE s \in SubSlots : subs[s].st = "none" /\ \A u \in SubSlots :
                                      subs[u].st = "none" => s <= u

\* doc.subscribe(cb) on thread t through handle h: the task is spawned
\* and Ok(()) is returned at once
Subscribe(t, h) ==
  /\ Held(h)
  /\ Free(t)
  /\ \E s \in SubSlots : subs[s].st = "none"
  /\ subs' = [subs EXCEPT ![FreeSlot] =
               [st |-> IF runtime = "running" THEN "spawned" ELSE "ended",
                doc |-> handles[h].doc, sid |-> 0, from |-> 0,
                since |-> IF watching = "returns" THEN Len(events) ELSE 0,
                errs |-> 0]]
  /\ lastRet' = Noted("subscribe", Ok("unit"))
  /\ UNCHANGED <<streams, delivered, events, handles, view, watching, asking>>
  /\ UNCHANGED <<storeVars, nodeVars, ticketVars, bridgeVars>>

\* the task's first step: client.subscribe().await.unwrap()
TaskOpen(s) ==
  /\ subs[s].st = "spawned"
  /\ runtime = "running"
  /\ \E fault \in BOOLEAN :
       IF fault \/ ~DocOpen(subs[s].doc)
       THEN /\ subs' = [subs EXCEPT ![s].st = "panicked"]
            /\ UNCHANGED streams
       ELSE LET sid == OpenStream(s)
            IN  /\ subs' = [subs EXCEPT ![s].st = "open", ![s].sid = sid,
                                        ![s].from = Len(events)]
                /\ streams' = [streams EXCEPT ![sid].open = TRUE,
                                              ![sid].doc = subs[s].doc]
  /\ UNCHANGED <<delivered, events, bridgeVars, ticketVars, nodeVars, storeVars, callVars>>

\* the error items put on streams so far
ErrorItems ==
  LET sum[S \in SUBSET SubSlots] ==
        IF S = {} THEN 0
        ELSE LET x == CHOOSE x \in S : TRUE IN subs[x].errs + sum[S \ {x}]
  IN  sum[SubSlots]

\* the transport fails for one item of the stream of subscription s
StreamError(s) ==
  /\ subs[s].st \in {"open", "incb"}
  /\ runtime = "running"
  /\ ErrorItems < MaxErrs
  /\ streams[subs[s].sid].open
  /\ streams' = [streams EXCEPT ![subs[s].sid].q = Append(@, [tag |-> "err"])]
  /\ subs' = [subs EXCEPT ![s].errs = @ + 1]
  /\ UNCHANGED <<delivered, events, bridgeVars, ticketVars, nodeVars, storeVars, callVars>>

\* a peer's write, or a blob that finished downloading, on document doc
PeerEvent(doc, kind) ==
  /\ runtime = "running"
  /\ DocOpen(doc)
  /\ Publish(doc, kind)
  /\ UNCHANGED <<subs, delivered, bridgeVars, ticketVars, nodeVars, storeVars, callVars>>

\* the workers of the executor that run a callback
BusyWorkers == Cardinality({s \in SubSlots : subs[s].st = "incb"})

\* sub.next().await yields the next item: it is printed, then an event is
\* handed to cb.event and an error is printed as an rpc error
TaskTake(s) ==
  /\ subs[s].st = "open"
  /\ BusyWorkers < WorkerThreads
  /\ streams[subs[s].sid].q # <<>>
  /\ LET item == Head(streams[subs[s].sid].q)
     IN  /\ streams' = [streams EXCEPT ![subs[s].sid].q = Tail(@)]
         /\ IF item.tag = "ok"
            THEN /\ delivered' = [delivered EXCEPT ![s] =
                                    Append(Append(@, GotEvent(item)), CbEvent(item))]
                 /\ subs' = [subs EXCEPT ![s].st = "incb"]
            ELSE /\ delivered' = [delivered EXCEPT ![s] =
                                    Append(Append(@, GotEvent(item)), RpcError)]
                 /\ subs' = [subs EXCEPT ![s].st = LoopAfterError]
  /\ UNCHANGED <<events, bridgeVars, ticketVars, nodeVars, storeVars, callVars>>

\* cb.event returns to the task
CbReturn(s) ==
  /\ subs[s].st = "incb"
  /\ \E result \in {"ok", "err"} :
       /\ delivered' = IF result = "err"
                       THEN [delivered EXCEPT ![s] = Append(@, CbError)]
                       ELSE delivered
       /\ subs' = [subs EXCEPT ![s].st = LoopAfterEvent(result)]
  /\ UNCHANGED <<streams, events, bridgeVars, ticketVars, nodeVars, storeVars, callVars>>

\* the subscriptions of one document, the returns of the caller's calls
\* recorded
\* the stream of subscription s is over: sub.next() yields None, or the
\* executor is gone and the task is dropped at this await
TaskStop(s) ==
  /\ subs[s].st = "open"
  /\ ~streams[subs[s].sid].open
  /\ subs' = [subs EXCEPT ![s].st = LoopAtEnd]
  /\ UNCHANGED <<streams, delivered, events, bridgeVars, ticketVars, nodeVars, storeVars,
                 callVars>>

InitNotify == watching = "returns" /\ InitRunning({7})

NextNotify ==
  \/ \E h \in Handles : Subscribe(Caller, h)
  \/ \E s \in SubSlots : TaskOpen(s)
  \/ \E s \in SubSlots : StreamError(s)
  \/ \E s \in SubSlots : TaskTake(s)
  \/ \E s \in SubSlots : CbReturn(s)
  \/ \E h \in Handles :
       Len(events) < MaxEvents /\ SetBytes(Caller, h, "a1", "k1", "hello", FALSE)
  \/ \E doc \in docs, kind \in StoreEventKinds \ {"InsertLocal"} :
       Len(events) < MaxEvents /\ PeerEvent(doc, kind)
  \/ \E h \in Handles : LatestAsk(Caller, h)
  \/ StoreAnswer(Caller)
  \/ LatestCollect(Caller)
  \/ \E s \in SubSlots : TaskStop(s)
  \/ DropNode

SpecNotify == InitNotify /\ [][NextNotify]_vars

\* the subscriptions of one document and their tasks, no return recorded
InitSub == watching = "tasks" /\ InitRunning({7})

NextSub ==
  \/ \E h \in Handles : Subscribe(Caller, h)
  \/ \E s \in SubSlots : TaskOpen(s)
  \/ \E s \in SubSlots : StreamError(s)
  \/ \E s \in SubSlots : TaskTake(s)
  \/ \E s \in SubSlots : CbReturn(s)
  \/ \E h \in Handles :
       Len(events) < MaxEvents /\ SetBytes(Caller, h, "a1", "k1", "hello", FALSE)
  \/ \E s \in SubSlots : TaskStop(s)
  \/ DropNode

SpecSub == InitSub /\ [][NextSub]_vars

\* the task of subscription s is in its loop
Forwarding(s) == subs[s].st \in {"open", "incb"}

\* how often event id was handed to the callback of subscription s
Passed(s, id) ==
  Cardinality({i \in 1..Len(delivered[s]) :
                 delivered[s][i].line = "event" /\ delivered[s][i].id = id})

\* how often event id waits on the stream of subscription s
Queued(s, id) ==
  LET q == streams[subs[s].sid].q
  IN  Cardinality({i \in 1..Len(q) : q[i].tag = "ok" /\ q[i].id = id})

\* the events of its document produced since the stream of s was opened
Owed(s) ==
  {id \in 1..Len(events) : id > subs[s].from /\ events[id].doc = subs[s].doc}

\* the local writes to its document since subscribe returned to the caller
WrittenSince(s) ==
  {id \in 1..Len(events) :
     /\ id > subs[s].since
     /\ events[id].doc = subs[s].doc
     /\ events[id].kind = "InsertLocal"}

\* C7, as the specification states it: once subscribe has returned, the
\* InsertLocal of every later successful set_bytes has been handed to the
\* callback by the time the next other operation on the document completes.
DeliveredBeforeNextOperation ==
  (lastRet.op = "latest" /\ ~lastRet.down) =>
    \A s \in SubSlots :
      subs[s].st # "none" =>
        \A id \in WrittenSince(s) :
          \E i \in 1..Len(delivered[s]) :
            /\ delivered[s][i].line = "event"
            /\ delivered[s][i].id = id
            /\ delivered[s][i].kind = "InsertLocal"

\* C8: the tasks of two subscriptions never share a stream, and while the
\* node runs every event produced after a subscription's stream was opened
\* is, for that subscription, either waiting on its stream or handed to
\* its callback, once and not twice, whatever the other subscription does.
IndependentStreams ==
  /\ \A s, u \in SubSlots :
       (s # u /\ Forwarding(s) /\ Forwarding(u)) => subs[s].sid # subs[u].sid
  /\ \A s \in SubSlots : \A id \in 1..Len(events) : Passed(s, id) <= 1
  /\ \A s \in SubSlots :
       (Forwarding(s) /\ runtime = "running") =>
         \A id \in Owed(s) : Passed(s, id) + Queued(s, id) = 1

\* both subscriptions were handed the same event, one of them after an
\* error, the other with its callback still running
IndependentStreamsWitness ==
  /\ \A s \in SubSlots : Passed(s, 1) = 1
  /\ \E i \in 1..Len(delivered[1]) : delivered[1][i].line = "cb error"
  /\ subs[2].st = "incb"
  /\ Passed(1, 2) = 1
  /\ Passed(2, 2) = 0

\* the task of subscription s has printed an error
SawError(s) ==
  \E i \in 1..Len(delivered[s]) : delivered[s][i].line \in {"rpc error", "cb error"}

\* C9: after an error item of the stream or an Err from cb.event, and while
\* the node runs, the task is still in its loop and every event it has not
\* handed to the callback yet still waits on its stream.
ErrorsDoNotStop ==
  \A s \in SubSlots :
    (SawError(s) /\ runtime = "running") =>
      /\ Forwarding(s)
      /\ \A id \in Owed(s) : Passed(s, id) = 0 => Queued(s, id) = 1

\* an event was handed to the callback after an error of each kind
ErrorsDoNotStopWitness ==
  \E s \in SubSlots : \E i, j, k \in 1..Len(delivered[s]) :
    /\ i < k
    /\ j < k
    /\ delivered[s][i].line = "rpc error"
    /\ delivered[s][j].line = "cb error"
    /\ delivered[s][k].line = "event"
    /\ runtime = "running"

\* ------------------------------------------------------------------------
\* block_on (node.rs:281-286) on the executor of IrohNode::new
\* (node.rs:186-194)
\* ------------------------------------------------------------------------

\* the workers of the executor whose core a calling task holds
HeldCores == Cardinality({w \in ReentrantTasks : reentrant[w].core})

FreeCores == WorkerThreads - HeldCores

\* where a thread that calls into the facade stands with respect to tokio:
\* a worker of the node's executor, a thread with no runtime, a thread
\* inside enter() of a runtime of the caller, a worker of a multi-thread
\* runtime of the caller, a task of a current_thread runtime of the caller
WorkerContext == "worker"
ForeignContexts == {"none", "entered", "multi_thread", "current_thread"}

\* a slip: the future is awaited on the worker without block_in_place, the
\* worker keeps its core while it waits
block_on_in_worker(ctx, core) ==
  [st |-> "blocked", core |-> core, ctx |-> ctx,
   via |-> IF ctx = "none" THEN "main" ELSE "current"]

\* block_on: block_in_place panics on a current_thread runtime and
\* elsewhere hands the core of the calling worker, if it is one, to another
\* thread; Handle::try_current() is Ok in the context of any runtime, the
\* node's or not, and the future is awaited through that handle, else
\* through rt.main()
block_on(ctx, core) ==
  IF ctx = "current_thread"
  THEN [st |-> "panicked", core |-> core, ctx |-> ctx, via |-> "none"]
  ELSE [st |-> "blocked", core |-> FALSE, ctx |-> ctx,
        via |-> IF ctx = "none" THEN "main" ELSE "current"]

\* a task that will call into the facade (a callback of a subscription) is
\* polled by a worker
TaskRun(w) ==
  /\ runtime = "running"
  /\ reentrant[w].st = "idle"
  /\ FreeCores > 0
  /\ reentrant' = [reentrant EXCEPT ![w] = [st |-> "running", core |-> TRUE, via |-> "none", ctx |-> WorkerContext]]
  /\ UNCHANGED <<foreign, subVars, ticketVars, nodeVars, storeVars, callVars>>

\* the task calls a facade operation from the worker
ReentrantCall(w) ==
  /\ reentrant[w].st = "running"
  /\ reentrant' = [reentrant EXCEPT ![w] = block_on(WorkerContext, reentrant[w].core)]
  /\ UNCHANGED <<foreign, subVars, ticketVars, nodeVars, storeVars, callVars>>

\* a thread unrelated to the executor calls a facade operation
ForeignCall(f) ==
  /\ runtime = "running"
  /\ foreign[f].st = "idle"
  /\ \E ctx \in ForeignContexts : foreign' = [foreign EXCEPT ![f] = block_on(ctx, FALSE)]
  /\ UNCHANGED <<reentrant, subVars, ticketVars, nodeVars, storeVars, callVars>>

\* the node service, a task of the executor, is polled by a free worker
\* and answers the request of a caller
ServeForeign(f) ==
  /\ ServiceUp
  /\ FreeCores > 0
  /\ foreign[f].st = "blocked"
  /\ foreign' = [foreign EXCEPT ![f].st = "served"]
  /\ UNCHANGED <<reentrant, subVars, ticketVars, nodeVars, storeVars, callVars>>

ServeReentrant(w) ==
  /\ ServiceUp
  /\ FreeCores > 0
  /\ reentrant[w].st = "blocked"
  /\ reentrant' = [reentrant EXCEPT ![w].st = "served"]
  /\ UNCHANGED <<foreign, subVars, ticketVars, nodeVars, storeVars, callVars>>

\* block_on returns to a thread unrelated to the executor
ForeignReturn(f) ==
  /\ foreign[f].st = "served"
  /\ foreign' = [foreign EXCEPT ![f] = Outside]
  /\ UNCHANGED <<reentrant, subVars, ticketVars, nodeVars, storeVars, callVars>>

\* block_on returns to the task: it goes on where it is, and takes the
\* core back if no other thread has picked it up
ReentrantReturn(w) ==
  /\ reentrant[w].st = "served"
  /\ \E core \in {reentrant[w].core} \cup (IF FreeCores > 0 THEN {TRUE} ELSE {}) :
       reentrant' = [reentrant EXCEPT ![w] =
                      [st |-> "running", core |-> core, via |-> "none", ctx |-> WorkerContext]]
  /\ UNCHANGED <<foreign, subVars, ticketVars, nodeVars, storeVars, callVars>>

\* the task returns to the executor
TaskDone(w) ==
  /\ reentrant[w].st = "running"
  /\ reentrant' = [reentrant EXCEPT ![w] = Outside]
  /\ UNCHANGED <<foreign, subVars, ticketVars, nodeVars, storeVars, callVars>>

InitBridgeRun == watching = "tasks" /\ InitRunning({7})

NextBridge ==
  \/ \E w \in ReentrantTasks : TaskRun(w)
  \/ \E w \in ReentrantTasks : ReentrantCall(w)
  \/ \E f \in ForeignThreads : ForeignCall(f)
  \/ \E f \in ForeignThreads : ServeForeign(f)
  \/ \E w \in ReentrantTasks : ServeReentrant(w)
  \/ \E f \in ForeignThreads : ForeignReturn(f)
  \/ \E w \in ReentrantTasks : ReentrantReturn(w)
  \/ \E w \in ReentrantTasks : TaskDone(w)

\* the executor polls a task that is ready again and again until it has
\* run, a thread whose future is complete returns, and a task that runs on
\* a worker goes on to its next call or to its end
FairBridge ==
  /\ \A f \in ForeignThreads :
       SF_vars(ServeForeign(f)) /\ WF_vars(ForeignReturn(f))
  /\ \A w \in ReentrantTasks :
       /\ SF_vars(ServeReentrant(w))
       /\ WF_vars(ReentrantReturn(w))
       /\ WF_vars(ReentrantCall(w) \/ TaskDone(w))

SpecBridge == InitBridgeRun /\ [][NextBridge]_vars /\ FairBridge

\* C3, as the specification states it: no thread waiting in block_on keeps
\* a worker of the executor, so a worker is free for the tasks of the
\* executor whenever every calling task waits, and every call, from a
\* worker or from any thread unrelated to the executor, is taken up and
\* returns.
BlockOnReturns ==
  /\ [](\A f \in ForeignThreads : foreign[f].st # "panicked")
  /\ [](\A w \in ReentrantTasks :
          reentrant[w].st \in {"blocked", "served"} => ~reentrant[w].core)
  /\ []((\A w \in ReentrantTasks : reentrant[w].st \in {"blocked", "served"})
          => FreeCores = WorkerThreads)
  /\ \A f \in ForeignThreads :
       (foreign[f].st = "blocked") ~> (foreign[f].st = "idle")
  /\ \A w \in ReentrantTasks :
       (reentrant[w].st = "blocked") ~> (reentrant[w].st = "running")

\* every calling task waits in block_on at once, with a call from an
\* unrelated thread answered meanwhile
BlockOnReturnsWitness ==
  /\ \A w \in ReentrantTasks : reentrant[w].st = "blocked" /\ reentrant[w].via = "current"
  /\ Cardinality(ReentrantTasks) >= WorkerThreads
  /\ \E f \in ForeignThreads : foreign[f].st = "served" /\ foreign[f].via = "main"

\* ------------------------------------------------------------------------
\* the end of a subscription
\* ------------------------------------------------------------------------

\* a task that is polled runs to its next await: a callback returns, and
\* sub.next() yields what the stream holds or its end
FairSub ==
  \A s \in SubSlots :
    /\ WF_vars(CbReturn(s))
    /\ WF_vars(TaskTake(s) \/ TaskStop(s))

NextEnd ==
  \/ \E h \in Handles : Subscribe(Caller, h)
  \/ \E s \in SubSlots : TaskOpen(s)
  \/ \E s \in SubSlots : TaskTake(s)
  \/ \E s \in SubSlots : CbReturn(s)
  \/ \E h \in Handles :
       Len(events) < MaxEvents /\ SetBytes(Caller, h, "a1", "k1", "hello", FALSE)
  \/ \E s \in SubSlots : TaskStop(s)
  \/ DropNode

SpecEnd == InitSub /\ [][NextEnd]_vars /\ FairSub

\* the stream of subscription s was opened and is closed
StreamClosed(s) == subs[s].sid # 0 /\ ~streams[subs[s].sid].open

\* the lines of a task's output that are calls of cb.event
EventLines(s) == {i \in 1..Len(delivered[s]) : delivered[s][i].line = "event"}

\* C11: a task leaves its loop only when its stream is closed; once the
\* stream is closed and holds nothing more, cb.event is not called again;
\* and a task whose stream is closed comes to its end.
RunsUntilStreamEnds ==
  /\ [][\A s \in SubSlots :
          (Forwarding(s) /\ subs'[s].st \notin {"open", "incb"})
            => ~streams'[subs[s].sid].open]_vars
  /\ [][\A s \in SubSlots :
          (StreamClosed(s) /\ streams[subs[s].sid].q = <<>>)
            => Len(delivered'[s]) >= Len(delivered[s])
               /\ \A i \in (Len(delivered[s]) + 1)..Len(delivered'[s]) :
                    delivered'[s][i].line # "event"]_vars
  /\ \A s \in SubSlots :
       (Forwarding(s) /\ StreamClosed(s)) ~> (subs[s].st = "ended")

\* a task that handed an event to its callback has ended after the node
\* was shut down while the callback ran
RunsUntilStreamEndsWitness ==
  \E s \in SubSlots :
    /\ subs[s].st = "ended"
    /\ StreamClosed(s)
    /\ EventLines(s) # {}
    /\ runtime = "shutdown"
    /\ \E i \in 1..Len(delivered[s]) : delivered[s][i].line = "cb error"

\* ------------------------------------------------------------------------
\* tickets and what they allow: share_read / share_write (node.rs:74-96)
\* and import_doc (node.rs:258-271)
\* ------------------------------------------------------------------------

\* a running node with one document of its own; how the caller came by
\* each handle is recorded
InitAccess == watching = "access" /\ InitRunning({7})

NextAccess ==
  \/ \E h \in Handles : ShareTicket(h)
  \/ ImportDoc(Caller, ImportTickets \cup MintedTickets)
  \/ \E h \in Handles, fault \in BOOLEAN :
       clock < MaxNodeWrites /\ SetBytes(Caller, h, "a1", "k1", "hello", fault)
  \/ \E h \in Handles : LatestAsk(Caller, h)
  \/ StoreAnswer(Caller)
  \/ LatestCollect(Caller)

SpecAccess == InitAccess /\ [][NextAccess]_vars

\* the caller holds, or held, a handle that came with the write capability
\* for document doc
WriteGranted(doc) ==
  \E h \in Handles : handles[h].doc = doc /\ handles[h].via \in {"created", "Write"}

\* C12: share_read returns a read ticket and share_write a write ticket
\* for the document of the handle, and every entry written on this node is
\* of a document the caller created or imported with a write ticket: a
\* document known from read tickets only is never written.
TicketScopedAccess ==
  /\ (lastRet.op \in {"share_read", "share_write"} /\ lastRet.tag = "ok") =>
       /\ IsOk(tkTicket)
       /\ tkTicket.val.mode = IF lastRet.op = "share_read" THEN "Read" ELSE "Write"
       /\ \E h \in Handles : handles[h].st # "free" /\ handles[h].doc = tkTicket.val.doc
  /\ \A e \in records : WriteGranted(e.doc)

\* a set_bytes on a document imported from a read ticket was refused
WriteRefusedSeen ==
  /\ lastRet.op = "set_bytes"
  /\ lastRet.tag = "err"
  /\ lastRet.cause = "readonly"
  /\ \E h \in Handles : Held(h) /\ handles[h].via = "Read" /\ handles[h].doc \in readonly

\* ------------------------------------------------------------------------
\* what latest() lists (node.rs:62-72)
\* ------------------------------------------------------------------------

\* threads that create authors, write and list
InitLatest == watching = "reads" /\ InitRunning({7})

NextLatest ==
  \/ \E t \in Threads : CreateAuthor(t)
  \/ \E t \in Threads, h \in Handles, author \in AuthorIds, key \in Keys :
       clock < MaxWrites /\ SetBytes(t, h, author, key, "hello", FALSE)
  \/ \E t \in Threads, h \in Handles : LatestAsk(t, h)
  \/ \E t \in Threads : StoreAnswer(t)
  \/ \E t \in Threads : LatestCollect(t)

SpecLatest == InitLatest /\ [][NextLatest]_vars

\* the entries written to document doc by author under key among the
\* first upto writes of the node
WrittenTo(doc, author, key, upto) ==
  {e \in records : e.doc = doc /\ e.author = author /\ e.key = key /\ e.ts <= upto}

\* list holds, of document doc, one entry for each author and key written
\* and nothing else, and each is the last write of its author and key,
\* the first upto writes of the node counted
OnePerPair(list, doc, upto) ==
  /\ list \subseteq {e \in records : e.doc = doc /\ e.ts <= upto}
  /\ \A author \in AuthorIds, key \in Keys :
       Cardinality({e \in list : e.author = author /\ e.key = key})
         = IF WrittenTo(doc, author, key, upto) = {} THEN 0 ELSE 1
  /\ \A e \in list : \A f \in WrittenTo(doc, e.author, e.key, upto) : f.ts <= e.ts

\* C13: a latest() that succeeds returns what the store read for it, and
\* that is, for each (author, key) written to the document by the time of
\* the reading, exactly the entry written last, and no other entry; every
\* write that completed before the call is among them.
LatestIsOnePerPair ==
  /\ [](\A t \in Threads :
          asking[t].st = "read" =>
            /\ asking[t].upto >= asking[t].from
            /\ OnePerPair(asking[t].snap, asking[t].doc, asking[t].upto))
  /\ [][\A t \in Threads :
          (view'[t].list # view[t].list /\ IsOk(view'[t].list)) =>
            /\ asking[t].st = "read"
            /\ view'[t].list.val = asking[t].snap]_vars

\* latest() returned one entry, the later one, after two writes by one
\* author under one key, on a node with every author created
LatestIsOnePerPairWitness ==
  /\ IsOk(view[Caller].list)
  /\ Cardinality(view[Caller].list.val) = 1
  /\ \E e \in view[Caller].list.val : e.ts = 2
  /\ Cardinality(records) = 2
  /\ authors = AuthorIds

\* ------------------------------------------------------------------------
\* the authors create_author returns (node.rs:246-256)
\* ------------------------------------------------------------------------

\* two threads that create authors on a node that has none and write as
\* them; what create_author returned last to each thread is recorded
InitAuthors == watching = "authors" /\ InitRunningWith({7}, {})

NextAuthors ==
  \/ \E t \in Threads : CreateAuthor(t)
  \/ \E t \in Threads, h \in Handles, author \in AuthorIds, key \in Keys :
       clock < MaxWrites /\ SetBytes(t, h, author, key, "hello", FALSE)

SpecAuthors == InitAuthors /\ [][NextAuthors]_vars

\* C14: the id a successful create_author returns is none of the ids the
\* node's authors had before, and none of the ids returned last to this or
\* the other thread.
DistinctAuthors ==
  [][\A t \in Threads :
       (view'[t].got # view[t].got /\ IsOk(view'[t].got)) =>
         /\ view'[t].got.val \notin authors
         /\ \A u \in Threads : IsOk(view[u].got) => view[u].got.val # view'[t].got.val]_vars

\* both threads hold an author of their own, created one after the other
DistinctAuthorsWitness ==
  /\ \A t \in Threads : IsOk(view[t].got)
  /\ view["t1"].got.val # view["t2"].got.val
  /\ authors = AuthorIds

\* ------------------------------------------------------------------------
\* import_doc (node.rs:258-271) on a second node: the document of a peer
\* ------------------------------------------------------------------------

\* what the peer that minted the tickets of ImportTickets holds: it created
\* document 200 and wrote one entry to it
RemoteEntries(doc) ==
  IF doc = 200
  THEN {[doc |-> 200, author |-> "peer", key |-> "k1", hash |-> Hash("hello"), ts |-> 0]}
  ELSE {}

\* the sync task of the node fetches the entries of a document it tracks
\* from the peer of its ticket
SyncFromPeer(doc) ==
  /\ ServiceUp
  /\ "sync" \in tasks
  /\ DocOpen(doc)
  /\ ~(RemoteEntries(doc) \subseteq records)
  /\ records' = records \cup RemoteEntries(doc)
  /\ Publish(doc, "InsertRemote")
  /\ UNCHANGED <<docs, readonly, closed, authors, blobs, clock, subs, delivered>>
  /\ UNCHANGED <<bridgeVars, ticketVars, nodeVars, callVars>>

\* the importing node: it has a document of its own and is handed tickets
\* of the peer
InitReplica == watching = "access" /\ InitRunning({7})

NextReplica ==
  \/ ImportDoc(Caller, ImportTickets)
  \/ \E doc \in DocIds : SyncFromPeer(doc)
  \/ \E h \in Handles, key \in Keys, fault \in BOOLEAN :
       clock < MaxNodeWrites /\ SetBytes(Caller, h, "a1", key, "world", fault)
  \/ \E h \in Handles : LatestAsk(Caller, h)
  \/ StoreAnswer(Caller)
  \/ LatestCollect(Caller)
  \/ \E h \in Handles : DropHandle(h)

\* the executor polls the sync task, and the peer is reached
FairReplica == \A doc \in DocIds : WF_vars(SyncFromPeer(doc))

SpecReplica == InitReplica /\ [][NextReplica]_vars /\ FairReplica

\* C15: import_doc returns its handle with nothing fetched yet, and from
\* then on the handle's latest() comes to return the entry the peer wrote.
ReplicationReaches ==
  /\ [][\A h \in Handles :
          (handles[h].st = "free" /\ handles'[h].st = "live") => records' = records]_vars
  /\ \A h \in Handles :
       (Held(h) /\ handles[h].asked = 200) ~>
         /\ IsOk(StoreGet(handles[h].doc, FALSE))
         /\ RemoteEntries(200) \subseteq StoreEntries(handles[h].doc, GetFilterLatest)

\* latest() on the imported handle has returned after the peer's entry came
ReplicationReachesWitness ==
  /\ \E h \in Handles : Held(h) /\ handles[h].asked = 200 /\ handles[h].doc = 200
  /\ RemoteEntries(200) \subseteq records
  /\ lastRet.op = "latest"
  /\ lastRet.tag = "ok"
  /\ Len(events) = 1

\* ------------------------------------------------------------------------
\* failures inside the task of a subscription (node.rs:128-143)
\* ------------------------------------------------------------------------

\* C16, as the specification states it: subscribe returns Ok on every call,
\* and whatever fails inside a task, opening the stream included, the task
\* stays alive to forward while the node runs.
TaskFailuresContained ==
  /\ lastRet.op = "subscribe" => lastRet.tag = "ok"
  /\ \A s \in SubSlots :
       (subs[s].st # "none" /\ runtime = "running") =>
         subs[s].st \in {"spawned", "open", "incb"}

\* ------------------------------------------------------------------------
\* the order of the calls of one callback (node.rs:30-38, 128-143)
\* ------------------------------------------------------------------------

\* subscriptions to a document that is written here and by peers
InitOrder == watching = "tasks" /\ InitRunning({7})

NextOrder ==
  \/ \E h \in Handles : Subscribe(Caller, h)
  \/ \E s \in SubSlots : TaskOpen(s)
  \/ \E s \in SubSlots : TaskTake(s)
  \/ \E s \in SubSlots : CbReturn(s)
  \/ \E h \in Handles :
       Len(events) < MaxEvents /\ SetBytes(Caller, h, "a1", "k1", "hello", FALSE)
  \/ \E doc \in docs, kind \in StoreEventKinds \ {"InsertLocal"} :
       Len(events) < MaxEvents /\ PeerEvent(doc, kind)

SpecOrder == InitOrder /\ [][NextOrder]_vars

\* the calls of cb.event made by the task of subscription s, in order
Calls(s) ==
  LET IsCall(line) == line.line = "event" IN SelectSeq(delivered[s], IsCall)

\* the events of its document produced since the stream of s was opened,
\* in the order the store produced them
OwedInOrder(s) ==
  LET IsOwed(id) == events[id].doc = subs[s].doc
  IN  SelectSeq([i \in 1..(Len(events) - subs[s].from) |-> subs[s].from + i], IsOwed)

\* C17: the calls of one subscription's callback are the successful items
\* of its stream from the first on, one call per item in the stream's
\* order, each with the variant of the store's event, and a call is made
\* only after the call before it has returned.
CallsFollowStream ==
  /\ [](\A s \in SubSlots :
          /\ subs[s].sid = 0 => Calls(s) = <<>>
          /\ subs[s].sid # 0 =>
               /\ Len(Calls(s)) <= Len(OwedInOrder(s))
               /\ \A i \in 1..Len(Calls(s)) :
                    /\ Calls(s)[i].id = OwedInOrder(s)[i]
                    /\ Calls(s)[i].kind = events[Calls(s)[i].id].kind)
  /\ [][\A s \in SubSlots :
          (/\ Len(delivered'[s]) > Len(delivered[s])
           /\ delivered'[s][Len(delivered'[s])].line = "event")
            => subs[s].st = "open" /\ subs'[s].st = "incb"]_vars

\* both callbacks were called with a peer's event and then with a local
\* one, the first call of one of them having failed
CallsFollowStreamWitness ==
  /\ \A s \in SubSlots :
       /\ Len(Calls(s)) = 2
       /\ Calls(s)[1].kind = "InsertRemote"
       /\ Calls(s)[2].kind = "InsertLocal"
  /\ \E s \in SubSlots : Len(delivered[s]) > 3 /\ delivered[s][3].line = "cb error"

\* ------------------------------------------------------------------------
\* a subscription and the handles of its document (node.rs:126-129)
\* ------------------------------------------------------------------------

NoHandleHeld(doc) == \A h \in Handles : ~(Held(h) /\ handles[h].doc = doc)

\* subscriptions to a document whose handles are dropped; peers write to
\* the document afterwards
InitKeep == watching = "tasks" /\ InitRunning({7})

NextKeep ==
  \/ \E h \in Handles : Subscribe(Caller, h)
  \/ \E s \in SubSlots : TaskOpen(s)
  \/ \E s \in SubSlots : TaskTake(s)
  \/ \E s \in SubSlots : CbReturn(s)
  \/ \E h \in Handles :
       Len(events) < MaxEvents /\ SetBytes(Caller, h, "a1", "k1", "hello", FALSE)
  \/ \E h \in Handles : DropHandle(h)
  \/ \E doc \in docs, kind \in StoreEventKinds \ {"InsertLocal"} :
       Len(events) < MaxEvents /\ NoHandleHeld(doc) /\ PeerEvent(doc, kind)
  \/ \E s \in SubSlots : TaskStop(s)
  \/ DropNode

SpecKeep == InitKeep /\ [][NextKeep]_vars /\ FairSub

\* C18: with no handle of its document held and the node running, the task
\* of a subscription is still there, its stream open, every event of the
\* document waiting on the stream or handed to the callback; and an event
\* that waits is handed to the callback unless the node is shut down.
SubscriptionOutlivesHandle ==
  /\ [](\A s \in SubSlots :
          (/\ NoHandleHeld(subs[s].doc)
           /\ runtime = "running"
           /\ subs[s].st \notin {"none", "panicked"}) =>
            /\ subs[s].st \in {"spawned", "open", "incb"}
            /\ Forwarding(s) =>
                 /\ streams[subs[s].sid].open
                 /\ \A id \in Owed(s) : Passed(s, id) + Queued(s, id) = 1)
  /\ \A s \in SubSlots : \A id \in 1..MaxEvents :
       (Forwarding(s) /\ Queued(s, id) = 1) ~> (Passed(s, id) = 1 \/ runtime # "running")

\* with every handle dropped, a callback was called with a peer's event
SubscriptionOutlivesHandleWitness ==
  /\ \A h \in Handles : ~Held(h)
  /\ runtime = "running"
  /\ \E s \in SubSlots : \E i \in 1..Len(delivered[s]) :
       /\ delivered[s][i].line = "event"
       /\ delivered[s][i].kind \in {"InsertRemote", "ContentReady"}

\* ------------------------------------------------------------------------
\* import_doc of a ticket of the node's own document
\* (tests::test_doc_create, node.rs:292-310)
\* ------------------------------------------------------------------------

\* C19: import_doc is refused for no ticket, the node's own included (it
\* fails only when the request does not reach the store); the handle it
\* returns is of the ticket's document; and the import leaves the entries
\* and the documents of the store as they are.
SelfImportAccepted ==
  /\ [](\A h \in Handles :
          handles[h].via \in ShareModes => handles[h].doc = handles[h].asked)
  /\ []((lastRet.op = "import_doc" /\ lastRet.tag = "err") => lastRet.cause = "rpc")
  /\ [][(\E h \in Handles : handles[h].st = "free" /\ handles'[h].st = "live") =>
          /\ records' = records
          /\ docs \subseteq docs'
          /\ \A doc \in docs : LatestEntries(doc)' = LatestEntries(doc)]_vars

\* the node imported the write ticket of its own document, which held an
\* entry, and got a second handle to it
SelfImportAcceptedWitness ==
  /\ IsOk(tkTicket)
  /\ tkTicket.val = [doc |-> 7, mode |-> "Write", peers |-> <<1, 255>>]
  /\ \E h, g \in Handles :
       /\ handles[h].via = "created" /\ handles[h].doc = 7
       /\ handles[g].via = "Write" /\ handles[g].asked = 7 /\ handles[g].doc = 7
       /\ Held(g)
  /\ \E e \in records : e.doc = 7
  /\ lastRet.op = "import_doc"
  /\ lastRet.tag = "ok"

====
